---- MODULE Spec2Model ----
(***************************************************************************)
(* SkyDB (src/src/skydb.ts): the revision cache of one SkynetClient and    *)
(* the asynchronous read and write operations that use it.                 *)
(*                                                                         *)
(* JavaScript runs each operation without interruption between two awaits, *)
(* so every action below is one such run: from the call, or from the       *)
(* moment a collaborator (registry.getEntry, registry.setEntry, uploadFile,*)
(* getFileContent) answers, up to the next await, the return or the throw. *)
(* Operations of one client overlap at the awaits: Ops are the operations  *)
(* that can be in flight at the same time.                                 *)
(***************************************************************************)
EXTENDS Integers, Sequences, FiniteSets, TLC

\* ---------------------------------------------------------------- bounds
\* MAX_REVISION (2^64 - 1 in utils/number) scaled down to the model.
MAX_REVISION == 2

\* ------------------------------------------------------------- constants
RAW_SKYLINK_SIZE == 34
BASE64_ENCODED_SKYLINK_SIZE == 46
MAX_ENTRY_LENGTH == 70
JSON_RESPONSE_VERSION == "2"
UNCACHED_REVISION_NUMBER == -1

\* The operations that can be in flight at the same time: two, so that every
\* pair of operations overlaps in every order.
Ops == {1, 2}

\* -------------------------------------------------------------- the keys
\* Private keys (hex) and the public key tweetnacl derives from each.
PrivateKeys == {"5a"}
publicKeyOf(privateKey) == IF privateKey = "5a" THEN "a1" ELSE "b2"
PublicKeys == {publicKeyOf(sk) : sk \in PrivateKeys}
DataKeys == {"k"}
\* Inputs that fail the synchronous validation.
BadHex == "zz"
NotAString == "notastring"

\* A cache key that leaves out the data key.
getCacheKeyPublicKeyOnly(publicKey, dataKey) == publicKey

getCacheKey(publicKey, dataKey) == publicKey \o "/" \o dataKey
CacheKeys == {getCacheKey(pk, dk) : pk \in PublicKeys, dk \in DataKeys}

\* ------------------------------------------------------------ byte data
\* A byte array is its length and its content: "zero" is all zero bytes, a
\* link name the raw bytes of that skylink (length 34) or the UTF-8 bytes of
\* its base64 string (length 46).
Bytes(len, id) == [len |-> len, id |-> id]
DELETION_ENTRY_DATA == Bytes(RAW_SKYLINK_SIZE, "zero")
EMPTY_SKYLINK == Bytes(RAW_SKYLINK_SIZE, "zero")
areEqualUint8Arrays(a, b) == a.len = b.len /\ a.id = b.id

\* A string that should hold a skylink is its form ("b64": 46 characters of
\* base64, "sia": the same with the sia:// prefix, "bad": no skylink,
\* "undefined" and "null": no string at all) and the link it names.
Str(form, id) == [form |-> form, id |-> id]
UndefinedStr == Str("undefined", "")
NullStr == Str("null", "")
encodeSkylinkBase64(bytes) == Str("b64", bytes.id)
uint8ArrayToStringUtf8(bytes) == Str("b64", bytes.id)
decodeSkylinkBase64(str) ==
    IF str.form = "b64" THEN Bytes(RAW_SKYLINK_SIZE, str.id) ELSE Bytes(10, str.id)
formatSkylink(str) == IF str.form = "b64" THEN Str("sia", str.id) ELSE str
trimUriPrefix(str) == IF str.form = "sia" THEN Str("b64", str.id) ELSE str
\* validateSkylinkString: the bare base64 skylink, or null for no skylink.
parseSkylink(str) == IF str.form \in {"b64", "sia"} THEN Str("b64", str.id) ELSE NullStr

\* The entry data the registry can hand back.
EntryDatas ==
    {EMPTY_SKYLINK, Bytes(RAW_SKYLINK_SIZE, "L1"),
     Bytes(BASE64_ENCODED_SKYLINK_SIZE, "L1"), Bytes(10, "L1")}

\* ------------------------------------------------------ JavaScript values
\* The bodies the download collaborator can hand back: values that are no
\* object, and objects with or without the envelope fields _data and _v.
\* A field holds the text of its value ("undefined" when it is missing).
Body(type, data, v) == [type |-> type, _data |-> data, _v |-> v]
Bodies ==
    {Body("string", "undefined", "undefined"), Body("null", "undefined", "undefined"),
     Body("object", "undefined", "undefined"), Body("object", "J1", JSON_RESPONSE_VERSION),
     Body("object", "J1", "0"), Body("object", "null", JSON_RESPONSE_VERSION),
     Body("object", "str", JSON_RESPONSE_VERSION)}
\* JavaScript truthiness of the values the model uses.
Truthy(v) == v \notin {"undefined", "null", "0"}
\* typeof v === "object" for the values an envelope field can hold.
IsObjectValue(v) == v \in {"J0", "J1", "null"}

\* The JSON values a caller can pass to setJSON.
Jsons == {"J0", "J1"}
NotAnObject == "notanobject"

\* What an operation returns in a field: null, a byte array, a JSON value,
\* a downloaded body as it is, or nothing when the type has no such field.
Val(t, id, len) == [t |-> t, id |-> id, len |-> len]
NullVal == Val("null", "", 0)
NoVal == Val("nofield", "", 0)
BytesVal(bytes) == Val("bytes", bytes.id, bytes.len)
JsonVal(json) == Val("json", json, 0)
BodyVal(body) == Val("body:" \o body.type, body._data \o "," \o body._v, 0)
NoFieldStr == Str("nofield", "")

\* ------------------------------------------------ collaborator responses
Revisions == 0..MAX_REVISION
CollaboratorErrors == {"NetworkError", "SignatureError"}
Failure(err) == [t |-> "fail", err |-> err]
\* registry.getEntry: a failure, no entry (404), or an entry, with or
\* without a revision field. The registry is shared with other clients and
\* portals may answer with stale data, so the revision is any revision.
GetEntryResponses ==
    {Failure(e) : e \in CollaboratorErrors}
        \cup {[t |-> "absent"]}
        \cup {[t |-> "entry", revision |-> n, data |-> d] : n \in Revisions, d \in EntryDatas}
        \cup {[t |-> "entry", data |-> d] : d \in EntryDatas}
\* registry.setEntry: success or failure.
SetEntryResponses == {[t |-> "ok"]} \cup {Failure(e) : e \in CollaboratorErrors}
\* uploadFileRequest: a failure, or a response whose data may lack fields.
UploadResponses ==
    {Failure("NetworkError")}
        \cup {[t |-> "ok", skylink |-> s, merkleroot |-> m, bitfield |-> b] :
                s \in {UndefinedStr, Str("b64", "L1"), Str("bad", "L1")},
                m \in {"undefined", "m"}, b \in {"undefined", "1"}}
\* getFileContent: a failure or a body.
DownloadResponses == {Failure("NetworkError")} \cup {[t |-> "ok", data |-> b] : b \in Bodies}

\* The cachedDataLink option of getJSON and getRawBytes.
CachedDataLinks == {UndefinedStr, Str("sia", "L1"), Str("b64", "L2"), Str("bad", "L1")}

\* ================================================================ state
VARIABLES
    cache,      \* client.revisionNumberCache: cache key -> revision, for the keys it has
    op,         \* the operations in flight: where each one waits, and its locals
    last,       \* the last step taken: its operation, the answer handled, the outcome
    observed,   \* history: per cache key, the highest revision read or stored so far
    deleted,    \* history: per cache key, the revision of the last successful deletion
    written,    \* history: per cache key, the last successful write: its entry, its result
    codec       \* the encrypted file codec: the call under way and its results

skydbVars == <<cache, op, last, observed, deleted, written>>
vars == <<cache, op, last, observed, deleted, written, codec>>

\* The codec keeps no state between calls and SkyDB does not call it.
NoCodecCall == [t |-> "none"]

ReadKinds == {"getJSON", "getEntryData", "getRawBytes"}
WriteKinds == {"setJSON", "setEntryData", "deleteJSON", "deleteEntryData"}
DeleteKinds == {"deleteJSON", "deleteEntryData"}

\* The operations are interchangeable: a call takes the first one that is
\* not running.
Free(o) == op[o].pc = "idle" /\ \A p \in Ops : p < o => op[p].pc # "idle"

\* An operation that is not running.
IdleOp ==
    [pc |-> "idle", kind |-> "", ck |-> "", rev |-> UNCACHED_REVISION_NUMBER,
     data |-> Bytes(0, ""), json |-> "", cdl |-> UndefinedStr, link |-> UndefinedStr,
     preHas |-> FALSE, preVal |-> UNCACHED_REVISION_NUMBER]

\* The last successful write on a pair: the entry it stored in the registry
\* and what it returned to its caller.
Written(kind, revision, data, resultData, resultDataLink) ==
    [kind |-> kind, revision |-> revision, data |-> data,
     resultData |-> resultData, resultDataLink |-> resultDataLink]
NothingWritten == Written("", UNCACHED_REVISION_NUMBER, Bytes(0, ""), NoVal, NoFieldStr)

\* No entry fetched in the step before.
NoFetch == [revision |-> UNCACHED_REVISION_NUMBER, deleted |-> FALSE]

NoStep ==
    [kind |-> "", ck |-> "", step |-> "init", resp |-> [t |-> "none"],
     outcome |-> "none", err |-> "", data |-> NoVal, dataLink |-> NoFieldStr,
     after |-> NoFetch]

\* The record of a step of an operation of kind k on cache key ck that
\* handled the answer r.
Step(k, ck, step, r, outcome, err, data, dataLink) ==
    [kind |-> k, ck |-> ck, step |-> step, resp |-> r,
     outcome |-> outcome, err |-> err, data |-> data, dataLink |-> dataLink,
     after |-> NoFetch]

Init ==
    /\ cache = << >>
    /\ op = [o \in Ops |-> IdleOp]
    /\ last = NoStep
    /\ observed = [ck \in CacheKeys |-> UNCACHED_REVISION_NUMBER]
    /\ deleted = [ck \in CacheKeys |-> UNCACHED_REVISION_NUMBER]
    /\ written = << >>
    /\ codec = NoCodecCall

\* ------------------------------------------------------ the revision cache
\* client.revisionNumberCache[cacheKey] = revision
setCached(c, ck, revision) ==
    [k \in DOMAIN c \cup {ck} |-> IF k = ck THEN revision ELSE c[k]]

\* The overflow check off by one: MAX_REVISION + 1 passes.
incrementRevisionThrowsOffByOne(revision) == revision + 1 > MAX_REVISION + 1

\* No check for the maximum revision.
incrementRevisionThrowsNever(revision) == FALSE

\* incrementRevision throws when the incremented revision exceeds MAX_REVISION.
incrementRevisionThrows(revision) == revision + 1 > MAX_REVISION

\* An increment by two.
incrementRevisionByTwo(revision) == revision + 2

incrementRevision(revision) == revision + 1

\* cachedRevision ?? UNCACHED_REVISION_NUMBER
cachedOrUncached(c, ck) == IF ck \in DOMAIN c THEN c[ck] ELSE UNCACHED_REVISION_NUMBER

incrementCachedRevisionThrows(c, ck) == incrementRevisionThrows(cachedOrUncached(c, ck))
\* The new revision incrementCachedRevision returns, and the cache it leaves.
newCachedRevision(c, ck) == incrementRevision(cachedOrUncached(c, ck))
\* The new revision computed but not stored in the cache.
incrementCachedRevisionNotStored(c, ck) == c
incrementCachedRevision(c, ck) == setCached(c, ck, newCachedRevision(c, ck))

\* A rollback that forgets to decrement.
decrementCachedRevisionForgotten(c, ck) == c

\* A decrement by two.
decrementCachedRevisionTwice(c, ck) == [c EXCEPT ![ck] = @ - 2]

\* client.revisionNumberCache[cacheKey] -= BigInt(1). Every caller has
\* incremented the key before, and nothing removes a key, so the key is there.
decrementCachedRevision(c, ck) == [c EXCEPT ![ck] = @ - 1]

\* The cache entry of a key as a value: whether there is one, and its revision.
preHasOf(c, ck) == ck \in DOMAIN c
preValOf(c, ck) == cachedOrUncached(c, ck)

Max(a, b) == IF a >= b THEN a ELSE b
Observe(obs, ck, revision) ==
    IF ck \in DOMAIN obs THEN [obs EXCEPT ![ck] = Max(@, revision)] ELSE obs

\* ============================================================ read path
HigherRevisionError == "A higher revision number for this userID and path is already cached"
IncompleteUploadError == "Did not get a complete upload response despite a successful request"
OverflowError == "Current entry already has maximum allowed revision, could not update the entry"

\* entry?.revision ?? UNCACHED_REVISION_NUMBER + BigInt(1)
newRevisionOfEntry(entry) ==
    IF "revision" \in DOMAIN entry THEN entry.revision ELSE UNCACHED_REVISION_NUMBER + 1

\* The comparison off by one: a cached revision one above the new one passes.
higherRevisionCachedOffByOne(c, ck, newRevision) ==
    /\ ck \in DOMAIN c
    /\ c[ck] # 0
    /\ c[ck] > newRevision + 1

\* cachedRevision && cachedRevision > newRevision: undefined and 0n are falsy.
higherRevisionCached(c, ck, newRevision) ==
    /\ ck \in DOMAIN c
    /\ c[ck] # 0
    /\ c[ck] > newRevision

\* The cache reset to the uncached revision when registry.getEntry fails.
cacheAfterGetEntryResetOnFailure(c, ck, r) ==
    IF r.t = "fail" THEN setCached(c, ck, UNCACHED_REVISION_NUMBER)
    ELSE IF r.t # "entry" THEN c
    ELSE IF higherRevisionCached(c, ck, newRevisionOfEntry(r)) THEN c
    ELSE setCached(c, ck, newRevisionOfEntry(r))

\* The check for no entry left out: entry?.revision ?? 0 then caches 0.
cacheAfterGetEntryNoNullCheck(c, ck, r) ==
    IF r.t = "fail" THEN c
    ELSE IF higherRevisionCached(c, ck, newRevisionOfEntry(r)) THEN c
    ELSE setCached(c, ck, newRevisionOfEntry(r))

\* The deletion check moved before the cache update.
cacheAfterGetEntryDeletedFirst(c, ck, r) ==
    IF r.t # "entry" THEN c
    ELSE IF higherRevisionCached(c, ck, newRevisionOfEntry(r)) THEN c
    ELSE IF areEqualUint8Arrays(r.data, EMPTY_SKYLINK) THEN c
    ELSE setCached(c, ck, newRevisionOfEntry(r))

\* The cache getSkyDBRegistryEntryAndUpdateCache leaves on the answer r of
\* registry.getEntry: untouched on a failure (the await throws), on no entry
\* and on a revision lower than the cached one, else set to the new revision.
cacheAfterGetEntry(c, ck, r) ==
    IF r.t # "entry" THEN c
    ELSE IF higherRevisionCached(c, ck, newRevisionOfEntry(r)) THEN c
    ELSE setCached(c, ck, newRevisionOfEntry(r))

wasRegistryEntryDeleted(entry) == areEqualUint8Arrays(entry.data, EMPTY_SKYLINK)

\* What the step before a write on ck fetched, when it was the step of a
\* read that fetched an entry with a revision for ck and passed the revision
\* check: the revision, and whether the read returned null for a deleted
\* entry.
fetchedJustBefore(l, ck) ==
    IF /\ l.step = "getEntry" /\ l.ck = ck
       /\ l.resp.t = "entry" /\ "revision" \in DOMAIN l.resp
       /\ l.err # HigherRevisionError
    THEN [revision |-> l.resp.revision,
          deleted |-> wasRegistryEntryDeleted(l.resp) /\ l.outcome = "ok"]
    ELSE NoFetch

\* parseDataLink: the raw data link, or null where the code throws.
parseDataLink(data, legacy) ==
    IF legacy /\ data.len = BASE64_ENCODED_SKYLINK_SIZE THEN uint8ArrayToStringUtf8(data)
    ELSE IF data.len = RAW_SKYLINK_SIZE THEN encodeSkylinkBase64(data)
    ELSE NullStr

checkCachedDataLinkThrows(cachedDataLink) ==
    cachedDataLink.form # "undefined" /\ parseSkylink(cachedDataLink) = NullStr
\* The comparison without validateSkylinkString: the prefix is not trimmed.
checkCachedDataLinkNotParsed(rawDataLink, cachedDataLink) ==
    cachedDataLink.form # "undefined" /\ rawDataLink = cachedDataLink
checkCachedDataLink(rawDataLink, cachedDataLink) ==
    cachedDataLink.form # "undefined" /\ rawDataLink = parseSkylink(cachedDataLink)

\* What a read does with a found entry once the cache is updated: return,
\* throw, or go on to download the data link.
afterCacheUpdate(kind, cachedDataLink, entry) ==
    IF wasRegistryEntryDeleted(entry)
    THEN [next |-> "return", err |-> "", data |-> NullVal,
          dataLink |-> IF kind = "getEntryData" THEN NoFieldStr ELSE NullStr]
    ELSE IF kind = "getEntryData"
    THEN [next |-> "return", err |-> "", data |-> BytesVal(entry.data), dataLink |-> NoFieldStr]
    ELSE LET rawDataLink == parseDataLink(entry.data, kind = "getJSON") IN
         IF rawDataLink = NullStr
         THEN [next |-> "throw", err |-> "ValidationError: entry.data",
               data |-> NoVal, dataLink |-> NoFieldStr]
         ELSE IF checkCachedDataLinkThrows(cachedDataLink)
         THEN [next |-> "throw", err |-> "ValidationError: cachedDataLink",
               data |-> NoVal, dataLink |-> NoFieldStr]
         ELSE IF checkCachedDataLink(rawDataLink, cachedDataLink)
         THEN [next |-> "return", err |-> "", data |-> NullVal,
               dataLink |-> formatSkylink(rawDataLink)]
         ELSE [next |-> "download", err |-> "", data |-> NoVal,
               dataLink |-> formatSkylink(rawDataLink)]

\* getJSON, getEntryData, getRawBytes up to the call of registry.getEntry.
StartRead(o, kind, publicKey, dataKey, cachedDataLink) ==
    /\ Free(o)
    /\ UNCHANGED <<observed, deleted, written, codec>>
    /\ cache' = cache
    /\ IF publicKey = BadHex \/ dataKey = NotAString
       THEN /\ last' = Step(kind, "", "start", [t |-> "none"], "error",
                            "ValidationError: parameter", NoVal, NoFieldStr)
            /\ UNCHANGED op
       ELSE LET ck == getCacheKey(publicKey, dataKey) IN
            /\ op' = [op EXCEPT ![o] =
                        [IdleOp EXCEPT !.pc = "getEntry", !.kind = kind, !.ck = ck,
                                       !.cdl = cachedDataLink]]
            /\ last' = Step(kind, ck, "start", [t |-> "none"], "pending", "",
                            NoVal, NoFieldStr)

\* getSkyDBRegistryEntryAndUpdateCache from the answer of registry.getEntry,
\* and its caller up to the call of getFileContent, the return or the throw.
GetEntryReturns(o, r) ==
    /\ op[o].pc = "getEntry"
    /\ UNCHANGED <<deleted, written, codec>>
    /\ LET kind == op[o].kind
           ck == op[o].ck
           Throw(err) ==
               /\ last' = Step(kind, ck, "getEntry", r, "error", err, NoVal, NoFieldStr)
               /\ op' = [op EXCEPT ![o] = IdleOp]
           Return(data, dataLink) ==
               /\ last' = Step(kind, ck, "getEntry", r, "ok", "", data, dataLink)
               /\ op' = [op EXCEPT ![o] = IdleOp]
       IN
       /\ cache' = cacheAfterGetEntry(cache, ck, r)
       /\ IF r.t = "fail"
          THEN Throw(r.err) /\ observed' = observed
          ELSE IF r.t = "absent"
          THEN /\ Return(NullVal, IF kind = "getEntryData" THEN NoFieldStr ELSE NullStr)
               /\ observed' = observed
          ELSE /\ observed' = Observe(observed, ck, newRevisionOfEntry(r))
               /\ IF higherRevisionCached(cache, ck, newRevisionOfEntry(r))
                  THEN Throw(HigherRevisionError)
                  ELSE LET a == afterCacheUpdate(kind, op[o].cdl, r) IN
                       IF a.next = "throw" THEN Throw(a.err)
                       ELSE IF a.next = "return" THEN Return(a.data, a.dataLink)
                       ELSE /\ op' = [op EXCEPT ![o].pc = "download", ![o].cdl = UndefinedStr,
                                                ![o].link = a.dataLink]
                            /\ last' = Step(kind, ck, "getEntry", r, "pending", "",
                                            NoVal, NoFieldStr)

\* What getJSON does with the downloaded body.
unwrapJSON(body) ==
    IF body.type # "object"
    THEN [next |-> "throw", err |-> "File data for the entry is not JSON", data |-> NoVal]
    ELSE IF ~(Truthy(body._data) /\ Truthy(body._v))
    THEN [next |-> "return", err |-> "", data |-> BodyVal(body)]
    ELSE IF ~IsObjectValue(body._data)
    THEN [next |-> "throw", err |-> "File data '_data' for the entry is not JSON", data |-> NoVal]
    ELSE [next |-> "return", err |-> "", data |-> JsonVal(body._data)]

\* getJSON and getRawBytes from the answer of getFileContent.
DownloadReturns(o, r) ==
    /\ op[o].pc = "download"
    /\ UNCHANGED <<cache, observed, deleted, written, codec>>
    /\ op' = [op EXCEPT ![o] = IdleOp]
    /\ LET kind == op[o].kind
           ck == op[o].ck
           Throw(err) ==
               last' = Step(kind, ck, "download", r, "error", err, NoVal, NoFieldStr)
           Return(data) ==
               last' = Step(kind, ck, "download", r, "ok", "", data, op[o].link)
       IN
       IF r.t = "fail" THEN Throw(r.err)
       ELSE IF kind = "getRawBytes" THEN Return(Val("buffer", BodyVal(r.data).id, 0))
       ELSE LET u == unwrapJSON(r.data) IN
            IF u.next = "throw" THEN Throw(u.err) ELSE Return(u.data)

\* =========================================================== write path
\* The validation without the check for the deletion sentinel.
validateEntryDataSentinelAllowed(data, allowDeletionEntryData) ==
    IF data.len > MAX_ENTRY_LENGTH THEN "ValidationError: data" ELSE ""

\* validateEntryData: the error it throws, or "" when the data is valid.
validateEntryData(data, allowDeletionEntryData) ==
    IF data.len > MAX_ENTRY_LENGTH THEN "ValidationError: data"
    ELSE IF ~allowDeletionEntryData /\ areEqualUint8Arrays(data, DELETION_ENTRY_DATA)
    THEN "Tried to set entry data that is the deletion sentinel"
    ELSE ""

\* The entry data a caller can pass to setEntryData.
SetEntryDatas ==
    {DELETION_ENTRY_DATA, Bytes(RAW_SKYLINK_SIZE, "L1"), Bytes(MAX_ENTRY_LENGTH + 1, "L1")}

\* uploadFile throws on a response that lacks one of the three fields.
uploadIncomplete(r) ==
    r.skylink.form = "undefined" \/ r.merkleroot = "undefined" \/ r.bitfield = "undefined"

\* setJSON up to the call of uploadFile (in getOrCreateRegistryEntry).
StartSetJSON(o, privateKey, dataKey, json) ==
    /\ Free(o)
    /\ UNCHANGED <<observed, deleted, written, codec>>
    /\ IF privateKey = BadHex \/ dataKey = NotAString \/ json = NotAnObject
       THEN /\ last' = Step("setJSON", "", "start", [t |-> "none"], "error",
                            "ValidationError: parameter", NoVal, NoFieldStr)
            /\ UNCHANGED <<cache, op>>
       ELSE LET ck == getCacheKey(publicKeyOf(privateKey), dataKey) IN
            IF incrementCachedRevisionThrows(cache, ck)
            THEN /\ last' = Step("setJSON", ck, "start", [t |-> "none"], "error",
                                 OverflowError,
                                 NoVal, NoFieldStr)
                 /\ UNCHANGED <<cache, op>>
            ELSE /\ cache' = incrementCachedRevision(cache, ck)
                 /\ op' = [op EXCEPT ![o] =
                             [IdleOp EXCEPT !.pc = "upload", !.kind = "setJSON", !.ck = ck,
                                            !.rev = newCachedRevision(cache, ck),
                                            !.json = json,
                                            !.preHas = preHasOf(cache, ck),
                                            !.preVal = preValOf(cache, ck)]]
                 /\ last' = [Step("setJSON", ck, "start", [t |-> "none"], "pending", "",
                                  NoVal, NoFieldStr)
                                EXCEPT !.after = fetchedJustBefore(last, ck)]

\* setJSON from the answer of the upload: the rest of getOrCreateRegistryEntry
\* and the call of registry.setEntry, or the catch block.
UploadReturns(o, r) ==
    /\ op[o].pc = "upload"
    /\ UNCHANGED <<observed, deleted, written, codec>>
    /\ LET ck == op[o].ck
           Catch(err) ==
               /\ cache' = decrementCachedRevision(cache, ck)
               /\ op' = [op EXCEPT ![o] = IdleOp]
               /\ last' = Step("setJSON", ck, "upload", r, "error", err, NoVal, NoFieldStr)
       IN
       IF r.t = "fail" THEN Catch(r.err)
       ELSE IF uploadIncomplete(r)
       THEN Catch(IncompleteUploadError)
       ELSE LET skylink == formatSkylink(r.skylink)
                dataLink == trimUriPrefix(skylink)
                rawDataLink == decodeSkylinkBase64(dataLink)
            IN
            IF rawDataLink.len # RAW_SKYLINK_SIZE
            THEN Catch("ValidationError: rawDataLink")
            ELSE /\ cache' = cache
                 /\ op' = [op EXCEPT ![o].pc = "setEntry", ![o].data = rawDataLink,
                                     ![o].link = formatSkylink(dataLink)]
                 /\ last' = Step("setJSON", ck, "upload", r, "pending", "", NoVal, NoFieldStr)

\* setEntryData up to the call of registry.setEntry; deleteJSON and
\* deleteEntryData call it with the deletion sentinel and
\* allowDeletionEntryData set to true.
StartSetEntryData(o, kind, privateKey, dataKey, data, allowDeletionEntryData) ==
    /\ Free(o)
    /\ UNCHANGED <<observed, deleted, written, codec>>
    /\ LET d == IF kind = "setEntryData" THEN data ELSE DELETION_ENTRY_DATA
           allow == IF kind = "setEntryData" THEN allowDeletionEntryData ELSE TRUE
           Throw(ck, err) ==
               /\ last' = Step(kind, ck, "start", [t |-> "none"], "error", err,
                               NoVal, NoFieldStr)
               /\ UNCHANGED <<cache, op>>
       IN
       IF privateKey = BadHex \/ dataKey = NotAString
       THEN Throw("", "ValidationError: parameter")
       ELSE IF validateEntryData(d, allow) # ""
       THEN Throw("", validateEntryData(d, allow))
       ELSE LET ck == getCacheKey(publicKeyOf(privateKey), dataKey) IN
            IF incrementCachedRevisionThrows(cache, ck)
            THEN Throw(ck, OverflowError)
            ELSE /\ cache' = incrementCachedRevision(cache, ck)
                 /\ op' = [op EXCEPT ![o] =
                             [IdleOp EXCEPT !.pc = "setEntry", !.kind = kind, !.ck = ck,
                                            !.rev = newCachedRevision(cache, ck),
                                            !.data = d,
                                            !.preHas = preHasOf(cache, ck),
                                            !.preVal = preValOf(cache, ck)]]
                 /\ last' = [Step(kind, ck, "start", [t |-> "none"], "pending", "",
                                  NoVal, NoFieldStr)
                                EXCEPT !.after = fetchedJustBefore(last, ck)]

\* A write that calls registry.setEntry again when it fails.
SetEntryReturnsRetry(o, r) ==
    /\ op[o].pc = "setEntry"
    /\ UNCHANGED <<cache, observed, deleted, written, codec>>
    /\ op' = [op EXCEPT ![o] = IF r.t = "fail" THEN op[o] ELSE IdleOp]
    /\ last' = Step(op[o].kind, op[o].ck, "setEntry", r,
                    IF r.t = "fail" THEN "pending" ELSE "ok", "", NoVal, NoFieldStr)

\* Every write from the answer of registry.setEntry: the return, or the
\* catch block.
SetEntryReturns(o, r) ==
    /\ op[o].pc = "setEntry"
    /\ UNCHANGED codec
    /\ op' = [op EXCEPT ![o] = IdleOp]
    /\ LET kind == op[o].kind
           ck == op[o].ck
       IN
       IF r.t = "fail"
       THEN /\ cache' = decrementCachedRevision(cache, ck)
            /\ UNCHANGED <<observed, deleted, written>>
            /\ last' = Step(kind, ck, "setEntry", r, "error", r.err, NoVal, NoFieldStr)
       ELSE /\ cache' = cache
            /\ observed' = Observe(observed, ck, op[o].rev)
            /\ deleted' = IF kind \in {"deleteJSON", "deleteEntryData"} /\ ck \in DOMAIN deleted
                          THEN [deleted EXCEPT ![ck] = op[o].rev]
                          ELSE deleted
            /\ last' = Step(kind, ck, "setEntry", r, "ok", "",
                            IF kind = "setJSON" THEN JsonVal(op[o].json)
                            ELSE IF kind = "setEntryData" THEN BytesVal(op[o].data)
                            ELSE NoVal,
                            IF kind = "setJSON" THEN formatSkylink(op[o].link)
                            ELSE NoFieldStr)
            /\ written' = IF ck \in DOMAIN written
                          THEN [written EXCEPT ![ck] =
                                  Written(kind, op[o].rev, op[o].data, last'.data,
                                          last'.dataLink)]
                          ELSE written

\* ================================================================= Next
\* The arguments of the calls: valid ones, and ones with one invalid argument.
OneInvalid(key, dataKey) == ~(key = BadHex /\ dataKey = NotAString)
AllValid(key, dataKey) == key # BadHex /\ dataKey # NotAString

Next ==
    \/ \E o \in Ops, kind \in ReadKinds, pk \in PublicKeys \cup {BadHex},
          dk \in DataKeys \cup {NotAString}, cdl \in CachedDataLinks :
            /\ OneInvalid(pk, dk)
            /\ (kind = "getEntryData" \/ ~AllValid(pk, dk)) => cdl = UndefinedStr
            /\ StartRead(o, kind, pk, dk, cdl)
    \/ \E o \in Ops, r \in GetEntryResponses : GetEntryReturns(o, r)
    \/ \E o \in Ops, r \in DownloadResponses : DownloadReturns(o, r)
    \/ \E o \in Ops, sk \in PrivateKeys \cup {BadHex}, dk \in DataKeys \cup {NotAString},
          json \in Jsons \cup {NotAnObject} :
            /\ OneInvalid(sk, dk)
            /\ ~AllValid(sk, dk) => json = "J1"
            /\ StartSetJSON(o, sk, dk, json)
    \/ \E o \in Ops, r \in UploadResponses : UploadReturns(o, r)
    \/ \E o \in Ops, kind \in WriteKinds \ {"setJSON"}, sk \in PrivateKeys \cup {BadHex},
          dk \in DataKeys \cup {NotAString}, data \in SetEntryDatas, allow \in BOOLEAN :
            /\ OneInvalid(sk, dk)
            /\ kind # "setEntryData" => data = DELETION_ENTRY_DATA
            /\ ~AllValid(sk, dk) => (data = DELETION_ENTRY_DATA /\ allow)
            /\ StartSetEntryData(o, kind, sk, dk, data, allow)
    \/ \E o \in Ops, r \in SetEntryResponses : SetEntryReturns(o, r)

Spec == Init /\ [][Next]_vars

\* Writes only, one after the other: a write starts when nothing is in flight.
AllIdle == \A o \in Ops : op[o].pc = "idle"

NextSeq ==
    \/ \E o \in Ops, sk \in PrivateKeys \cup {BadHex}, dk \in DataKeys \cup {NotAString},
          json \in Jsons \cup {NotAnObject} :
            /\ AllIdle
            /\ OneInvalid(sk, dk)
            /\ ~AllValid(sk, dk) => json = "J1"
            /\ StartSetJSON(o, sk, dk, json)
    \/ \E o \in Ops, r \in UploadResponses : UploadReturns(o, r)
    \/ \E o \in Ops, kind \in WriteKinds \ {"setJSON"}, sk \in PrivateKeys \cup {BadHex},
          dk \in DataKeys \cup {NotAString}, data \in SetEntryDatas, allow \in BOOLEAN :
            /\ AllIdle
            /\ OneInvalid(sk, dk)
            /\ kind # "setEntryData" => data = DELETION_ENTRY_DATA
            /\ ~AllValid(sk, dk) => (data = DELETION_ENTRY_DATA /\ allow)
            /\ StartSetEntryData(o, kind, sk, dk, data, allow)
    \/ \E o \in Ops, r \in SetEntryResponses : SetEntryReturns(o, r)

SpecSeq == Init /\ [][NextSeq]_vars

\* Writes only, overlapping, and every call of a collaborator answered: the
\* upload and registry.setEntry of a write in flight eventually return or
\* fail.
NextWrites ==
    \/ \E o \in Ops, sk \in PrivateKeys \cup {BadHex}, dk \in DataKeys \cup {NotAString},
          json \in Jsons \cup {NotAnObject} :
            /\ OneInvalid(sk, dk)
            /\ ~AllValid(sk, dk) => json = "J1"
            /\ StartSetJSON(o, sk, dk, json)
    \/ \E o \in Ops, r \in UploadResponses : UploadReturns(o, r)
    \/ \E o \in Ops, kind \in WriteKinds \ {"setJSON"}, sk \in PrivateKeys \cup {BadHex},
          dk \in DataKeys \cup {NotAString}, data \in SetEntryDatas, allow \in BOOLEAN :
            /\ OneInvalid(sk, dk)
            /\ kind # "setEntryData" => data = DELETION_ENTRY_DATA
            /\ ~AllValid(sk, dk) => (data = DELETION_ENTRY_DATA /\ allow)
            /\ StartSetEntryData(o, kind, sk, dk, data, allow)
    \/ \E o \in Ops, r \in SetEntryResponses : SetEntryReturns(o, r)

CollaboratorsAnswer ==
    \A o \in Ops :
        /\ WF_vars(\E r \in UploadResponses : UploadReturns(o, r))
        /\ WF_vars(\E r \in SetEntryResponses : SetEntryReturns(o, r))

SpecLive == Init /\ [][NextWrites]_vars /\ CollaboratorsAnswer

\* Two pairs of two owners on one client, with overlapping calls; the data
\* key of the first contains "/" and is the cache key of the second. The
\* revisions observed and deleted are not recorded.
Pairs2 == {<<"5a", "b2/k">>, <<"6b", "k">>}

\* The answers of the collaborators, one of each kind.
PairsGetEntryResponses ==
    {Failure("NetworkError"), [t |-> "absent"]}
        \cup {[t |-> "entry", revision |-> n, data |-> d] :
                n \in Revisions, d \in {DELETION_ENTRY_DATA, Bytes(RAW_SKYLINK_SIZE, "L1")}}
PairsDownloadResponses ==
    {Failure("NetworkError"),
     [t |-> "ok", data |-> Body("object", "J1", JSON_RESPONSE_VERSION)]}
PairsUploadResponses ==
    {Failure("NetworkError"),
     [t |-> "ok", skylink |-> Str("b64", "L1"), merkleroot |-> "m", bitfield |-> "1"]}

InitPairs ==
    /\ cache = << >>
    /\ op = [o \in Ops |-> IdleOp]
    /\ last = NoStep
    /\ observed = << >>
    /\ deleted = << >>
    /\ written = << >>
    /\ codec = NoCodecCall

NextPairs ==
    \/ \E o \in Ops, kind \in ReadKinds, p \in Pairs2 :
            StartRead(o, kind, publicKeyOf(p[1]), p[2], UndefinedStr)
    \/ \E o \in Ops, r \in PairsGetEntryResponses : GetEntryReturns(o, r)
    \/ \E o \in Ops, r \in PairsDownloadResponses : DownloadReturns(o, r)
    \/ \E o \in Ops, p \in Pairs2 : StartSetJSON(o, p[1], p[2], "J1")
    \/ \E o \in Ops, r \in PairsUploadResponses : UploadReturns(o, r)
    \/ \E o \in Ops, kind \in WriteKinds \ {"setJSON"}, p \in Pairs2 :
            StartSetEntryData(o, kind, p[1], p[2], Bytes(RAW_SKYLINK_SIZE, "L1"), FALSE)
    \/ \E o \in Ops, r \in SetEntryResponses : SetEntryReturns(o, r)

SpecPairs == InitPairs /\ [][NextPairs]_vars

\* ----------------------------- setJSON and getJSON against a faithful portal
\* One caller at a time writes and reads one pair on a portal that keeps
\* what it is given: the uploader answers with the content address of the
\* file, the downloader with the file at the address, and the registry with
\* the entry of the last write that succeeded. Calls can still fail.
\* The empty object {}: an object, and truthy as every object is.
EmptyObject == "J0"

\* The document without the version field.
jsonFullDataVersionMissing(json) == Body("object", json, "undefined")

\* The document setJSON uploads for a JSON value: { _data: data, _v: 2 }.
jsonFullData(json) == Body("object", json, JSON_RESPONSE_VERSION)

\* The files the portal can hold, and the content address of each.
Files == {Body("object", json, v) : json \in Jsons, v \in {JSON_RESPONSE_VERSION, "undefined"}}
skylinkOf(file) == Str("b64", "L:" \o file._data \o ":" \o file._v)
fileAt(skylink) == CHOOSE file \in Files : skylinkOf(file).id = skylink.id

\* The answers of the faithful portal.
FaithfulUpload(o) ==
    [t |-> "ok", skylink |-> skylinkOf(jsonFullData(op[o].json)),
     merkleroot |-> "m", bitfield |-> "1"]
FaithfulGetEntry(ck) ==
    IF written[ck] = NothingWritten
    THEN [t |-> "absent"]
    ELSE [t |-> "entry", revision |-> written[ck].revision, data |-> written[ck].data]
FaithfulDownload(o) == [t |-> "ok", data |-> fileAt(op[o].link)]

InitRoundTrip ==
    /\ cache = << >>
    /\ op = [o \in Ops |-> IdleOp]
    /\ last = NoStep
    /\ observed = [ck \in CacheKeys |-> UNCACHED_REVISION_NUMBER]
    /\ deleted = [ck \in CacheKeys |-> UNCACHED_REVISION_NUMBER]
    /\ written = [ck \in CacheKeys |-> NothingWritten]
    /\ codec = NoCodecCall

NextRoundTrip ==
    \/ \E o \in Ops, sk \in PrivateKeys, dk \in DataKeys, json \in Jsons :
            AllIdle /\ StartSetJSON(o, sk, dk, json)
    \/ \E o \in Ops :
            /\ op[o].pc = "upload"
            /\ \E r \in {FaithfulUpload(o), Failure("NetworkError")} : UploadReturns(o, r)
    \/ \E o \in Ops, sk \in PrivateKeys, dk \in DataKeys :
            AllIdle /\ StartSetEntryData(o, "deleteJSON", sk, dk, DELETION_ENTRY_DATA, TRUE)
    \/ \E o \in Ops, r \in SetEntryResponses : SetEntryReturns(o, r)
    \/ \E o \in Ops, pk \in PublicKeys, dk \in DataKeys :
            AllIdle /\ StartRead(o, "getJSON", pk, dk, UndefinedStr)
    \/ \E o \in Ops :
            /\ op[o].pc = "getEntry"
            /\ \E r \in {FaithfulGetEntry(op[o].ck), Failure("NetworkError")} :
                    GetEntryReturns(o, r)
    \/ \E o \in Ops :
            /\ op[o].pc = "download"
            /\ \E r \in {FaithfulDownload(o), Failure("NetworkError")} : DownloadReturns(o, r)

SpecRoundTrip == InitRoundTrip /\ [][NextRoundTrip]_vars

\* ================================================= encrypted file codec
\* The padding of file sizes (encrypted_files.ts): a size is padded to a
\* multiple of a block that doubles with the size: 4 KiB for sizes up to
\* 80 KiB, 8 KiB up to 160 KiB, 16 KiB up to 320 KiB, and so on.
KiB == 1024
MiB == 1024 * KiB

\* The number of doublings tried before giving up with the overflow error,
\* scaled to 32-bit integers.
MaxShift == 15

\* The largest multiple of KiB drawn as a size.
MaxKib == 360

RECURSIVE Pow2(_)
Pow2(n) == IF n = 0 THEN 1 ELSE 2 * Pow2(n - 1)

\* The first n below MaxShift with size <= 2^n * 80 KiB; MaxShift if none.
RECURSIVE bucketOf(_, _)
bucketOf(size, n) ==
    IF n >= MaxShift THEN MaxShift
    ELSE IF size <= Pow2(n) * 80 * KiB THEN n
    ELSE bucketOf(size, n + 1)

padOverflows(size) == bucketOf(size, 0) = MaxShift
paddingBlock(size) == Pow2(bucketOf(size, 0)) * 4 * KiB

PadOverflowError == "Could not pad file size, overflow detected."
CheckOverflowError == "Could not check padded file size, overflow detected."

\* A padding that moves on to the next block also from a padded size.
padFileSizeNextBlockAlways(initialSize) ==
    initialSize - (initialSize % paddingBlock(initialSize)) + paddingBlock(initialSize)

\* padFileSize for a size that does not overflow.
padFileSize(initialSize) ==
    IF initialSize % paddingBlock(initialSize) # 0
    THEN initialSize - (initialSize % paddingBlock(initialSize)) + paddingBlock(initialSize)
    ELSE initialSize

\* A check against the smallest block whatever the size.
checkPaddedBlockSmallestBlock(size) == size % (4 * KiB) = 0

\* checkPaddedBlock for a size that does not overflow.
checkPaddedBlock(size) == size % paddingBlock(size) = 0

\* The sizes drawn: every multiple of KiB up to MaxKib KiB, the sizes one
\* byte below and above each, 100 MiB and 1 GiB, and the largest integer.
Sizes ==
    {sz \in {k * KiB + d : k \in 0..MaxKib, d \in {-1, 0, 1}} : sz >= 0}
        \cup {100 * MiB, 1024 * MiB, 2147483647}

\* A result: a value, or the error thrown.
Ok(v) == [ok |-> TRUE, v |-> v]
Err(e) == [ok |-> FALSE, err |-> e]

CallPadFileSize(size) ==
    IF padOverflows(size) THEN Err(PadOverflowError) ELSE Ok(padFileSize(size))
CallCheckPaddedBlock(size) ==
    IF padOverflows(size) THEN Err(CheckOverflowError) ELSE Ok(checkPaddedBlock(size))

InitPad ==
    /\ cache = << >>
    /\ op = [o \in Ops |-> IdleOp]
    /\ last = NoStep
    /\ observed = [ck \in CacheKeys |-> UNCACHED_REVISION_NUMBER]
    /\ deleted = [ck \in CacheKeys |-> UNCACHED_REVISION_NUMBER]
    /\ written = << >>
    /\ \E sz \in Sizes : codec = [t |-> "pad", st |-> "called", size |-> sz]

\* padFileSize(size)
PadFileSize ==
    /\ codec.t = "pad" /\ codec.st = "called"
    /\ codec' = [t |-> "pad", st |-> "padded", size |-> codec.size,
                 padded |-> CallPadFileSize(codec.size)]
    /\ UNCHANGED skydbVars

\* padFileSize(padFileSize(size))
PadFileSizeAgain ==
    /\ codec.t = "pad" /\ codec.st = "padded" /\ codec.padded.ok
    /\ codec' = [t |-> "pad", st |-> "again", size |-> codec.size, padded |-> codec.padded,
                 again |-> CallPadFileSize(codec.padded.v)]
    /\ UNCHANGED skydbVars

\* checkPaddedBlock(padFileSize(size)) and checkPaddedBlock(size)
CheckPaddedBlock ==
    /\ codec.t = "pad" /\ codec.st = "padded" /\ codec.padded.ok
    /\ codec' = [t |-> "pad", st |-> "checked", size |-> codec.size, padded |-> codec.padded,
                 isPadded |-> CallCheckPaddedBlock(codec.padded.v),
                 wasPadded |-> CallCheckPaddedBlock(codec.size)]
    /\ UNCHANGED skydbVars

NextPad == PadFileSize \/ PadFileSizeAgain \/ CheckPaddedBlock

SpecPad == InitPad /\ [][NextPad]_vars

\* ------------------------------------------- encryptJSONFile, decryptJSONFile
\* An encrypted file is nonce || metadata || ciphertext. The metadata holds
\* the version in its first byte; its other bytes are reserved.
ENCRYPTED_JSON_RESPONSE_VERSION == 1
ENCRYPTION_NONCE_LENGTH == 24
ENCRYPTION_HIDDEN_FIELD_METADATA_LENGTH == 16
ENCRYPTION_OVERHEAD_LENGTH == 16

\* The most bytes changed in one encrypted file.
MaxChanges == 2

EncryptionKeys == {"key1", "key2"}
Nonces == {"nonce1", "nonce2"}

\* The payload {"message": "a" x n}, for lengths at both sides of the first
\* block boundary.
Payloads == {[message |-> n] : n \in {4, 4026, 4027}}

\* JSON.stringify and the UTF-8 encoding: the text, known by its length.
stringify(payload) == [json |-> "{\"message\":\"a..\"}", bytes |-> 14 + payload.message]
\* JSON.parse of the decoded text.
parse(text) == [message |-> text.bytes - 14]

\* The zero bytes appended to the text, and their removal.
padBytes(text, finalSize) == [text |-> text, zeros |-> finalSize - text.bytes]
trimPadding(plain) == plain.text

\* Authenticated encryption: the ciphertext binds plaintext, nonce, metadata
\* and key, and is ENCRYPTION_OVERHEAD_LENGTH bytes longer than the plaintext.
seal(plain, nonce, metadata, key) ==
    [plain |-> plain, nonce |-> nonce, metadata |-> metadata, key |-> key,
     changed |-> {}, cut |-> 0]

\* An authenticated decryption that covers nonce and ciphertext only.
authenticatedDecryptMetadataIgnored(ct, nonce, metadata, key) ==
    IF /\ ct.changed = {} /\ ct.cut = 0
       /\ nonce = ct.nonce /\ key = ct.key
    THEN Ok(ct.plain) ELSE Err("none")

\* Authenticated decryption: fails on any corruption of nonce, metadata or
\* ciphertext, and on another key.
authenticatedDecrypt(ct, nonce, metadata, key) ==
    IF /\ ct.changed = {} /\ ct.cut = 0
       /\ nonce = ct.nonce /\ metadata = ct.metadata /\ key = ct.key
    THEN Ok(ct.plain) ELSE Err("none")

encodeEncryptedFileMetadata(version) == [version |-> version, changed |-> {}]

totalOverhead ==
    ENCRYPTION_OVERHEAD_LENGTH + ENCRYPTION_NONCE_LENGTH + ENCRYPTION_HIDDEN_FIELD_METADATA_LENGTH

\* An encryption that pads the text alone to a padded block.
encryptJSONFileOverheadForgotten(payload, key, nonce) ==
    LET text == stringify(payload)
        plain == padBytes(text, padFileSize(text.bytes))
        metadata == encodeEncryptedFileMetadata(ENCRYPTED_JSON_RESPONSE_VERSION)
    IN  [len |-> plain.text.bytes + plain.zeros + totalOverhead,
         nonce |-> [of |-> nonce, changed |-> {}],
         metadata |-> metadata,
         ct |-> seal(plain, [of |-> nonce, changed |-> {}], metadata, key)]

\* encryptJSONFile(payload, key), with the fresh random nonce as an input.
encryptJSONFile(payload, key, nonce) ==
    LET text == stringify(payload)
        plain == padBytes(text, padFileSize(text.bytes + totalOverhead) - totalOverhead)
        metadata == encodeEncryptedFileMetadata(ENCRYPTED_JSON_RESPONSE_VERSION)
    IN  [len |-> plain.text.bytes + plain.zeros + totalOverhead,
         nonce |-> [of |-> nonce, changed |-> {}],
         metadata |-> metadata,
         ct |-> seal(plain, [of |-> nonce, changed |-> {}], metadata, key)]

NotPaddedError(length) ==
    [msg |-> "Expected parameter 'data' to be padded encrypted data", length |-> length]
VersionError(received) ==
    [msg |-> "Received unrecognized JSON response version",
     received |-> received, expected |-> ENCRYPTED_JSON_RESPONSE_VERSION]
DecryptError == [msg |-> "Could not decrypt given encrypted JSON file"]

\* The outcome of decryptJSONFile, with whether the version was decoded and
\* whether the decryption was attempted.
Outcome(res, decoded, opened) == [res |-> res, decoded |-> decoded, opened |-> opened]

\* A decryption that decodes the version before it checks the length.
decryptJSONFileVersionFirst(data, key) ==
    IF data.metadata.version # ENCRYPTED_JSON_RESPONSE_VERSION
    THEN Outcome(Err(VersionError(data.metadata.version)), TRUE, FALSE)
    ELSE IF ~checkPaddedBlock(data.len)
    THEN Outcome(Err(NotPaddedError(data.len)), TRUE, FALSE)
    ELSE LET opened == authenticatedDecrypt(data.ct, data.nonce, data.metadata, key)
         IN  IF ~opened.ok THEN Outcome(Err(DecryptError), TRUE, TRUE)
             ELSE Outcome(Ok(parse(trimPadding(opened.v))), TRUE, TRUE)

\* decryptJSONFile(data, key)
decryptJSONFile(data, key) ==
    IF ~checkPaddedBlock(data.len)
    THEN Outcome(Err(NotPaddedError(data.len)), FALSE, FALSE)
    ELSE IF data.metadata.version # ENCRYPTED_JSON_RESPONSE_VERSION
    THEN Outcome(Err(VersionError(data.metadata.version)), TRUE, FALSE)
    ELSE LET opened == authenticatedDecrypt(data.ct, data.nonce, data.metadata, key)
         IN  IF ~opened.ok THEN Outcome(Err(DecryptError), TRUE, TRUE)
             ELSE Outcome(Ok(parse(trimPadding(opened.v))), TRUE, TRUE)

\* The regions of an encrypted file, by fixed offsets.
InNonce(i) == i < ENCRYPTION_NONCE_LENGTH
IsVersionByte(i) == i = ENCRYPTION_NONCE_LENGTH
InReserved(i) ==
    /\ i > ENCRYPTION_NONCE_LENGTH
    /\ i < ENCRYPTION_NONCE_LENGTH + ENCRYPTION_HIDDEN_FIELD_METADATA_LENGTH
InCiphertext(i) == i >= ENCRYPTION_NONCE_LENGTH + ENCRYPTION_HIDDEN_FIELD_METADATA_LENGTH

\* data[i]++
changeByte(data, i) ==
    IF InNonce(i)
    THEN [data EXCEPT !.nonce.changed = @ \cup {i}]
    ELSE IF IsVersionByte(i)
    THEN [data EXCEPT !.metadata.version = (@ + 1) % 256]
    ELSE IF InReserved(i)
    THEN [data EXCEPT !.metadata.changed = @ \cup {i}]
    ELSE [data EXCEPT !.ct.changed = @ \cup {i}]

\* data.slice(0, data.length - 1)
sliceLastByte(data) == [data EXCEPT !.len = @ - 1, !.ct.cut = @ + 1]

\* The bytes changed: the first and last byte of every region, the last
\* byte being that of a file of one block or of two.
ByteIndices ==
    {0, ENCRYPTION_NONCE_LENGTH - 1, ENCRYPTION_NONCE_LENGTH, ENCRYPTION_NONCE_LENGTH + 1,
     ENCRYPTION_NONCE_LENGTH + ENCRYPTION_HIDDEN_FIELD_METADATA_LENGTH - 1,
     ENCRYPTION_NONCE_LENGTH + ENCRYPTION_HIDDEN_FIELD_METADATA_LENGTH,
     4 * KiB - 1, 8 * KiB - 1}

InitCodec ==
    /\ cache = << >>
    /\ op = [o \in Ops |-> IdleOp]
    /\ last = NoStep
    /\ observed = [ck \in CacheKeys |-> UNCACHED_REVISION_NUMBER]
    /\ deleted = [ck \in CacheKeys |-> UNCACHED_REVISION_NUMBER]
    /\ written = << >>
    /\ \E payload \in Payloads, key \in EncryptionKeys, nonce \in Nonces :
        codec = [t |-> "file", st |-> "called", payload |-> payload, key |-> key,
                 nonce |-> nonce]

\* encryptJSONFile(payload, key)
EncryptJSONFile ==
    /\ codec.t = "file" /\ codec.st = "called"
    /\ codec' = [t |-> "file", st |-> "encrypted", payload |-> codec.payload,
                 key |-> codec.key, nonce |-> codec.nonce,
                 data |-> encryptJSONFile(codec.payload, codec.key, codec.nonce),
                 changed |-> {}, sliced |-> FALSE]
    /\ UNCHANGED skydbVars

\* The last byte of the encrypted file is dropped.
SliceLastByte ==
    /\ codec.t = "file" /\ codec.st = "encrypted"
    /\ ~codec.sliced /\ codec.changed = {}
    /\ codec' = [codec EXCEPT !.data = sliceLastByte(@), !.sliced = TRUE]
    /\ UNCHANGED skydbVars

\* One byte of the encrypted file is changed.
ChangeByte(i) ==
    /\ codec.t = "file" /\ codec.st = "encrypted"
    /\ i < codec.data.len
    /\ i \notin codec.changed /\ Cardinality(codec.changed) < MaxChanges
    /\ codec' = [codec EXCEPT !.data = changeByte(@, i), !.changed = @ \cup {i}]
    /\ UNCHANGED skydbVars

\* decryptJSONFile(data, key)
DecryptJSONFile(key) ==
    /\ codec.t = "file" /\ codec.st = "encrypted"
    /\ codec' = [t |-> "file", st |-> "decrypted", payload |-> codec.payload,
                 key |-> codec.key, nonce |-> codec.nonce, data |-> codec.data,
                 changed |-> codec.changed, sliced |-> codec.sliced,
                 with |-> key, out |-> decryptJSONFile(codec.data, key)]
    /\ UNCHANGED skydbVars

NextCodec ==
    \/ EncryptJSONFile
    \/ SliceLastByte
    \/ \E i \in ByteIndices : ChangeByte(i)
    \/ \E key \in EncryptionKeys : DecryptJSONFile(key)

SpecCodec == InitCodec /\ [][NextCodec]_vars

\* =============================================================== claims
InFlightWrite(o) == op[o].pc \in {"upload", "setEntry"}
LastIsGetEntry == last.step = "getEntry"
LastEntryWithRevision ==
    LastIsGetEntry /\ last.resp.t = "entry" /\ "revision" \in DOMAIN last.resp
\* The operation whose step was just taken has finished: it is idle again.
Finished(o) == op[o].pc # "idle" /\ op'[o].pc = "idle"

\* C1: the orchestrator never passes to registry.setEntry an entry whose
\* revision is less than or equal to a revision the client has observed for
\* the pair before (read from the registry or stored by a successful write).
\* The call is made in the step in which the write starts to wait for
\* registry.setEntry.
C1_NeverPassesObservedRevision ==
    [][\A o \in Ops :
          (op[o].pc # "setEntry" /\ op'[o].pc = "setEntry")
              => op'[o].rev > observed[op'[o].ck]]_vars

\* C2: the writes in flight on one pair hold pairwise distinct reserved
\* revisions, and a write that reserves holds a revision greater than that
\* of every write still in flight on the pair.
DistinctReserved ==
    \A a, b \in Ops :
        (a # b /\ InFlightWrite(a) /\ InFlightWrite(b) /\ op[a].ck = op[b].ck)
            => op[a].rev # op[b].rev
C2_DistinctIncreasingReservations ==
    [][/\ DistinctReserved'
       /\ \A o, p \in Ops :
            (op[o].pc = "idle" /\ InFlightWrite(o)' /\ InFlightWrite(p) /\ op[p].ck = op'[o].ck)
                => op'[o].rev > op[p].rev]_vars

\* C3: when a write fails after its increment, the cached revision of its
\* pair is, at the moment the failure surfaces, what it was immediately
\* before the increment (no entry counting as the uncached revision -1), and
\* the error is the failure of the collaborator.
C3_FailedWriteRestoresCache ==
    [][\A o \in Ops :
          (InFlightWrite(o) /\ Finished(o) /\ last'.outcome = "error")
              => /\ cachedOrUncached(cache', op[o].ck) = op[o].preVal
                 /\ last'.resp.t = "fail" => last'.err = last'.resp.err]_vars

\* C4: with writes only, one after the other, on a fresh pair, the first
\* successful write reserves revision 0 and every later successful write the
\* revision of the successful write before it plus 1, whatever writes failed
\* in between: every write reserves the highest stored revision plus 1 (0
\* when nothing is stored), and a successful write stores what it reserved.
C4_SequentialWritesConsecutive ==
    [][\A o \in Ops :
          /\ (op[o].pc = "idle" /\ InFlightWrite(o)')
                => op'[o].rev = observed[op'[o].ck] + 1
          /\ (op[o].pc = "setEntry" /\ Finished(o) /\ last'.outcome = "ok")
                => /\ op[o].rev = observed[op[o].ck] + 1
                   /\ observed'[op[o].ck] = op[o].rev]_vars
\* A write reserves revision 0 on a pair whose entry an earlier, failed
\* write has left at -1.
C4_Witness ==
    \E o \in Ops : /\ op[o].pc = "setEntry" /\ op[o].rev = 0
                   /\ op[o].preHas /\ op[o].preVal = UNCACHED_REVISION_NUMBER
                   /\ observed[op[o].ck] = UNCACHED_REVISION_NUMBER

\* C5: a read that fetches an entry whose revision is lower than the cached
\* revision r fails with the higher-revision error and leaves the cache at r.
C5_StaleReadFailsCacheKept ==
    [][(/\ LastEntryWithRevision'
        /\ last'.ck \in DOMAIN cache
        /\ cache[last'.ck] > last'.resp.revision)
          => /\ last'.outcome = "error"
             /\ last'.err = HigherRevisionError
             /\ cache' = cache]_vars
C5_Witness ==
    /\ LastEntryWithRevision
    /\ last.err = HigherRevisionError
    /\ last.ck \in DOMAIN cache
    /\ cache[last.ck] = last.resp.revision + 1

\* C6: a step of a read that ends with an error leaves the revision cache as
\* it was.
C6_ReadErrorLeavesCache ==
    [][(last'.kind \in ReadKinds /\ last'.outcome = "error") => cache' = cache]_vars

\* C7: when registry.getEntry fails, the read fails with that failure, does
\* not go on to download, and the revision cache is unchanged.
C7_GetEntryFailureLeavesCache ==
    [][(LastIsGetEntry' /\ last'.resp.t = "fail")
          => /\ last'.outcome = "error"
             /\ last'.err = last'.resp.err
             /\ cache' = cache
             /\ \A o \in Ops : op[o].pc = "getEntry" => op'[o].pc \in {"getEntry", "idle"}]_vars
C7_Witness ==
    /\ LastIsGetEntry /\ last.resp.t = "fail" /\ last.outcome = "error"
    /\ last.ck \in DOMAIN cache /\ cache[last.ck] = 1

\* C8: when registry.getEntry finds no entry, the read returns null data (and
\* a null data link from getJSON and getRawBytes), does not download, and the
\* revision cache is unchanged.
C8_AbsentEntryLeavesCache ==
    [][(LastIsGetEntry' /\ last'.resp.t = "absent")
          => /\ last'.outcome = "ok"
             /\ last'.data = NullVal
             /\ last'.dataLink = (IF last'.kind = "getEntryData" THEN NoFieldStr ELSE NullStr)
             /\ cache' = cache
             /\ \A o \in Ops : op[o].pc = "getEntry" => op'[o].pc \in {"getEntry", "idle"}]_vars
C8_Witness ==
    /\ LastIsGetEntry /\ last.resp.t = "absent" /\ last.data = NullVal
    /\ last.ck \in DOMAIN cache /\ cache[last.ck] = 1

\* C9: a read that fetches an entry whose revision is not lower than the
\* cached one (or with nothing cached) sets the cache to the entry's
\* revision, whatever the entry holds; for the deletion sentinel it then
\* returns null data without a download.
C9_FoundEntryUpdatesCache ==
    [][(/\ LastEntryWithRevision'
        /\ (last'.ck \in DOMAIN cache => cache[last'.ck] <= last'.resp.revision))
          => /\ last'.ck \in DOMAIN cache'
             /\ cache'[last'.ck] = last'.resp.revision
             /\ areEqualUint8Arrays(last'.resp.data, EMPTY_SKYLINK)
                  => /\ last'.outcome = "ok"
                     /\ last'.data = NullVal
                     /\ \A o \in Ops :
                          op[o].pc = "getEntry" => op'[o].pc \in {"getEntry", "idle"}]_vars
C9_Witness ==
    /\ LastEntryWithRevision
    /\ areEqualUint8Arrays(last.resp.data, EMPTY_SKYLINK)
    /\ last.outcome = "ok" /\ last.data = NullVal
    /\ last.resp.revision = 2
    /\ last.ck \in DOMAIN cache /\ cache[last.ck] = 2

\* C10: a read fails with the higher-revision error only when the client has
\* observed (read, or stored with success) a revision higher than the one the
\* registry has just reported.
C10_ConsistencyErrorOnlyIfObservedNewer ==
    [][(LastEntryWithRevision' /\ last'.err = HigherRevisionError)
          => observed[last'.ck] > last'.resp.revision]_vars

\* A write reserves (its incrementCachedRevision) in the step that starts it,
\* and rolls back (its decrementCachedRevision) in the step that ends it with
\* an error.
Reserves(o) == op[o].pc = "idle" /\ InFlightWrite(o)'
RollsBack(o) == InFlightWrite(o) /\ Finished(o) /\ last'.outcome = "error"

\* C11: between the increment of a write and its completion (registry.setEntry
\* has succeeded, or the decrement is done) no other write on the same pair
\* increments or decrements the cached revision.
C11_WriteAtomicOnPair ==
    [][\A o, p \in Ops :
          (o # p /\ InFlightWrite(p) /\ InFlightWrite(p)')
              => /\ ~(Reserves(o) /\ op'[o].ck = op[p].ck)
                 /\ ~(RollsBack(o) /\ op[o].ck = op[p].ck)]_vars

\* C12: when a write reaches its first collaborator call (uploadFile in
\* setJSON, registry.setEntry in the other writes) the cached revision of its
\* pair is already incremented and is the revision the write holds; setJSON
\* passes to registry.setEntry the revision it held at the upload.
C12_ReservationBeforeCollaborators ==
    [][\A o \in Ops :
          /\ Reserves(o)
                => /\ op'[o].ck \in DOMAIN cache'
                   /\ cache'[op'[o].ck] = cachedOrUncached(cache, op'[o].ck) + 1
                   /\ op'[o].rev = cache'[op'[o].ck]
                   /\ op'[o].pc = (IF op'[o].kind = "setJSON" THEN "upload" ELSE "setEntry")
          /\ (op[o].pc = "upload" /\ op'[o].pc = "setEntry")
                => /\ op'[o].rev = op[o].rev
                   /\ op'[o].ck = op[o].ck]_vars
\* A setJSON waits for registry.setEntry with the revision 1 it reserved.
C12_Witness ==
    \E o \in Ops : /\ op[o].pc = "setEntry" /\ op[o].kind = "setJSON"
                   /\ op[o].rev = 1 /\ op[o].preVal = 0
                   /\ op[o].ck \in DOMAIN cache /\ cache[op[o].ck] = 1

\* The keys of a call with a malformed private key or a data key that is no
\* string.
InvalidKeys ==
    {<<BadHex, dk>> : dk \in DataKeys} \cup {<<sk, NotAString>> : sk \in PrivateKeys}

\* C13: a write with a malformed private key, a data key that is no string,
\* a json that is no object, entry data longer than MAX_ENTRY_LENGTH, or the
\* deletion sentinel without allowDeletionEntryData fails in the step of the
\* call: no operation starts to wait for a collaborator and the revision
\* cache is unchanged.
C13_InvalidWriteLeavesCache ==
    [][(last'.step = "start" /\ last'.kind \in WriteKinds) =>
        \/ (cache' = cache /\ op' = op /\ last'.outcome = "error")
        \/ \A o \in Ops :
              Free(o) =>
                /\ \A k \in InvalidKeys :
                      /\ last'.kind = "setJSON" => ~StartSetJSON(o, k[1], k[2], "J1")
                      /\ last'.kind # "setJSON" =>
                            ~StartSetEntryData(o, last'.kind, k[1], k[2], DELETION_ENTRY_DATA, TRUE)
                /\ \A sk \in PrivateKeys, dk \in DataKeys :
                      /\ last'.kind = "setJSON" => ~StartSetJSON(o, sk, dk, NotAnObject)
                      /\ last'.kind = "setEntryData" =>
                            \A data \in SetEntryDatas, allow \in BOOLEAN :
                                (\/ data.len > MAX_ENTRY_LENGTH
                                 \/ (areEqualUint8Arrays(data, DELETION_ENTRY_DATA) /\ ~allow))
                                    => ~StartSetEntryData(o, "setEntryData", sk, dk, data, allow)]_vars
\* setEntryData has refused the deletion sentinel while the pair is cached at 1.
C13_Witness ==
    /\ last.kind = "setEntryData" /\ last.step = "start" /\ last.outcome = "error"
    /\ last.err = "Tried to set entry data that is the deletion sentinel"
    /\ \E ck \in DOMAIN cache : cache[ck] = 1
    /\ \A o \in Ops : op[o].pc = "idle"

\* C14: a deletion never waits for an upload; it holds the deletion sentinel
\* and the cached revision + 1, waits for registry.setEntry once, and
\* decrements the cache when that fails. Once a deletion has succeeded at
\* revision r, a getEntryData or getJSON that fetches that entry (the
\* sentinel at revision r) returns null data and leaves the cache at r.
C14_DeleteIsSetEntryDataOfSentinel ==
    [][/\ \A o \in Ops :
            /\ op'[o].kind \in DeleteKinds
                  => (op'[o].pc = "setEntry" /\ op'[o].data = DELETION_ENTRY_DATA)
            /\ (Reserves(o) /\ op'[o].kind \in DeleteKinds)
                  => /\ op'[o].rev = cachedOrUncached(cache, op'[o].ck) + 1
                     /\ cachedOrUncached(cache', op'[o].ck) = op'[o].rev
            /\ (op[o].kind \in DeleteKinds /\ op'[o] # op[o]) => Finished(o)
            /\ (op[o].kind \in DeleteKinds /\ RollsBack(o))
                  => cache'[op[o].ck] = cache[op[o].ck] - 1
       /\ (/\ LastEntryWithRevision'
           /\ last'.kind \in {"getEntryData", "getJSON"}
           /\ last'.resp.revision = deleted[last'.ck]
           /\ areEqualUint8Arrays(last'.resp.data, DELETION_ENTRY_DATA))
             => /\ last'.outcome = "ok"
                /\ last'.data = NullVal
                /\ cachedOrUncached(cache', last'.ck) = deleted[last'.ck]]_vars

\* C15: a write called on a pair whose cached revision is MAX_REVISION fails
\* with the overflow error in the step of the call: the cache is unchanged
\* (no decrement) and no operation starts to wait for a collaborator.
C15_OverflowLeavesCache ==
    [][(/\ last'.step = "start"
        /\ last'.kind \in WriteKinds
        /\ last'.ck \in DOMAIN cache
        /\ cache[last'.ck] = MAX_REVISION)
          => /\ last'.outcome = "error"
             /\ last'.err = OverflowError
             /\ cache' = cache
             /\ op' = op]_vars
C15_Witness ==
    /\ last.step = "start" /\ last.kind = "setJSON" /\ last.err = OverflowError
    /\ last.ck \in DOMAIN cache /\ cache[last.ck] = MAX_REVISION
    /\ \A o \in Ops : op[o].pc = "idle"

\* The read that handles the answer of registry.getEntry in this step.
HandlesGetEntry(o) == op[o].pc = "getEntry" /\ op'[o] # op[o]
\* The content address a string names, for the strings that name one.
AddressOf(str) == str.id
NamesAddress(str) == str.form \in {"b64", "sia"}

InFlight == {o \in Ops : op[o].pc # "idle"}
C17_NoRetries ==
    [][/\ last'.resp.t = "fail"
            => (last'.outcome = "error" /\ Cardinality(InFlight') = Cardinality(InFlight) - 1)
       /\ \A o \in Ops :
          op'[o] # op[o] =>
            /\ op[o].pc = "idle" =>
                  op'[o].pc = (IF op'[o].kind \in ReadKinds THEN "getEntry"
                               ELSE IF op'[o].kind = "setJSON" THEN "upload"
                               ELSE "setEntry")
            /\ op[o].pc = "getEntry" =>
                  \/ op'[o].pc = "idle"
                  \/ op'[o].pc = "download" /\ op'[o].kind = op[o].kind
                        /\ op[o].kind \in {"getJSON", "getRawBytes"}
            /\ op[o].pc = "download" => op'[o].pc = "idle"
            /\ op[o].pc = "upload" =>
                  \/ op'[o].pc = "idle"
                  \/ op'[o].pc = "setEntry" /\ op'[o].kind = "setJSON"
            /\ op[o].pc = "setEntry" => op'[o].pc = "idle"]_vars
\* The registry.setEntry of a setJSON has failed after its upload, and the
\* operation has ended.
C17_Witness ==
    /\ last.kind = "setJSON" /\ last.step = "setEntry" /\ last.resp.t = "fail"
    /\ last.outcome = "error"
    /\ \A o \in Ops : op[o].pc = "idle"

\* C18: a pair has a cache entry only if the client has read a found entry
\* of the pair, a write on the pair has succeeded, or a write on the pair is
\* in flight (a write that fails on a pair with no entry leaves it with no
\* entry); and no step removes an entry.
C18_CacheEntryOnlyAfterSuccess ==
    [][/\ \A ck \in DOMAIN cache' :
            \/ observed'[ck] >= 0
            \/ \E o \in Ops : InFlightWrite(o)' /\ op'[o].ck = ck
       /\ DOMAIN cache \subseteq DOMAIN cache']_vars

\* C19: getJSON rejects a downloaded body that is no object, returns the
\* _data field of an object that has both _data and _v, whatever their
\* values, and returns an object that has neither field as it is.
C19_EnvelopeByPresence ==
    [][(last'.step = "download" /\ last'.kind = "getJSON" /\ last'.resp.t = "ok") =>
          LET body == last'.resp.data IN
          /\ body.type # "object" => last'.outcome = "error"
          /\ (body.type = "object" /\ body._data # "undefined" /\ body._v # "undefined")
                => (last'.outcome = "ok" => last'.data = JsonVal(body._data))
          /\ (body.type = "object" /\ body._data = "undefined" /\ body._v = "undefined")
                => (last'.outcome = "ok" /\ last'.data = BodyVal(body))]_vars

\* C20: uploadFile fails with the incomplete-response error exactly when the
\* response lacks the skylink, the merkleroot or the bitfield; setJSON then
\* ends without calling registry.setEntry, with the cached revision of the
\* pair what it was before the setJSON (no entry counting as -1).
C20_IncompleteUploadRollsBack ==
    [][\A o \in Ops :
          (op[o].pc = "upload" /\ op'[o] # op[o] /\ last'.resp.t = "ok") =>
            /\ (last'.err = IncompleteUploadError)
                  <=> \/ last'.resp.skylink.form = "undefined"
                      \/ last'.resp.merkleroot = "undefined"
                      \/ last'.resp.bitfield = "undefined"
            /\ last'.err = IncompleteUploadError
                  => /\ op'[o].pc = "idle"
                     /\ last'.outcome = "error"
                     /\ cachedOrUncached(cache', op[o].ck) = op[o].preVal]_vars

\* C21: for every size that does not overflow, padding the padded size
\* gives the padded size again, and the padded size is not below the size.
C21_PadIdempotentNotBelow ==
    (codec.t = "pad" /\ codec.st = "again")
        => /\ codec.again = codec.padded
           /\ codec.padded.v >= codec.size
\* 5 KiB is padded to 8 KiB, and 8 KiB to 8 KiB.
C21_Witness ==
    /\ codec.t = "pad" /\ codec.st = "again"
    /\ codec.size = 5 * KiB /\ codec.padded = Ok(8 * KiB) /\ codec.again = Ok(8 * KiB)

\* C22: for every size that does not overflow, the padded size is a padded
\* block and no size from the size up to below the padded size is one;
\* 351 KiB pads to 352 KiB, 5 KiB to 8 KiB, 105 KiB to 112 KiB, 100 MiB to
\* 104 MiB, and 351 KiB and 100 MiB are no padded blocks.
C22_PadIsNextPaddedBlock ==
    (codec.t = "pad" /\ codec.st = "checked")
        => /\ codec.isPadded = Ok(TRUE)
           /\ \A t \in Sizes :
                (codec.size <= t /\ t < codec.padded.v) => ~checkPaddedBlock(t)
           /\ codec.size = 351 * KiB => (codec.padded.v = 352 * KiB /\ codec.wasPadded = Ok(FALSE))
           /\ codec.size = 5 * KiB => codec.padded.v = 8 * KiB
           /\ codec.size = 105 * KiB => codec.padded.v = 112 * KiB
           /\ codec.size = 100 * MiB => (codec.padded.v = 104 * MiB /\ codec.wasPadded = Ok(FALSE))
\* 351 KiB, no padded block, is padded to 352 KiB, which is one.
C22_Witness ==
    /\ codec.t = "pad" /\ codec.st = "checked"
    /\ codec.size = 351 * KiB /\ codec.padded = Ok(352 * KiB)
    /\ codec.isPadded = Ok(TRUE) /\ codec.wasPadded = Ok(FALSE)

\* C23: decryptJSONFile checks in a fixed order and the first failing check
\* gives the error: a length that is no padded block gives the not-padded
\* error naming the length, before the version is decoded or the decryption
\* attempted; else a version other than the expected one gives the version
\* error naming both, before the decryption is attempted; else a failing
\* decryption gives the generic error.
C23_DecryptCheckOrder ==
    (codec.t = "file" /\ codec.st = "decrypted")
        => /\ ~checkPaddedBlock(codec.data.len)
                => codec.out = Outcome(Err(NotPaddedError(codec.data.len)), FALSE, FALSE)
           /\ (/\ checkPaddedBlock(codec.data.len)
               /\ codec.data.metadata.version # ENCRYPTED_JSON_RESPONSE_VERSION)
                => codec.out = Outcome(Err(VersionError(codec.data.metadata.version)), TRUE, FALSE)
           /\ (/\ checkPaddedBlock(codec.data.len)
               /\ codec.data.metadata.version = ENCRYPTED_JSON_RESPONSE_VERSION)
                => /\ codec.out.opened
                   /\ ~codec.out.res.ok => codec.out.res = Err(DecryptError)
\* A file one byte short with a changed version byte, decrypted with another
\* key, gives the not-padded error.
C23_Witness ==
    /\ codec.t = "file" /\ codec.st = "decrypted"
    /\ codec.sliced /\ codec.data.len = 4095
    /\ codec.data.metadata.version = 2
    /\ codec.with # codec.key
    /\ codec.out.res = Err(NotPaddedError(4095))

C26_WriteAfterReadReservesNext ==
    [][/\ (/\ LastEntryWithRevision
           /\ last'.step = "start" /\ last'.kind \in WriteKinds /\ last'.ck = last.ck)
            => \A o \in Ops : Reserves(o) => op'[o].rev = last.resp.revision + 1
       /\ \A o \in Ops :
            (op[o].pc = "upload" /\ op'[o].pc = "setEntry") => op'[o].rev = op[o].rev]_vars

\* C26 amended: a write that starts right after the step in which a read
\* fetched a found entry with revision r for its pair, r not being lower than
\* the cached revision, reserves r + 1, also when the entry was deleted and
\* the read returned null, and passes what it reserved to registry.setEntry.
C26_WriteAfterPassedReadReservesNext ==
    [][/\ (/\ LastEntryWithRevision /\ last.err # HigherRevisionError
           /\ last'.step = "start" /\ last'.kind \in WriteKinds /\ last'.ck = last.ck)
            => \A o \in Ops : Reserves(o) => op'[o].rev = last.resp.revision + 1
       /\ \A o \in Ops :
            (op[o].pc = "upload" /\ op'[o].pc = "setEntry") => op'[o].rev = op[o].rev]_vars
\* A write has reserved revision 2 right after a read returned null for the
\* deleted entry of revision 1 that it fetched.
C26_Witness ==
    /\ last.step = "start" /\ last.kind \in WriteKinds /\ last.outcome = "pending"
    /\ last.after = [revision |-> 1, deleted |-> TRUE]
    /\ \E o \in Ops : InFlightWrite(o) /\ op[o].ck = last.ck /\ op[o].rev = 2
    /\ cache[last.ck] = 2

\* C27: only a write that incremented the cached revision of its pair and
\* then failed decrements it: a write increments by exactly one when it
\* reserves, leaves the cache alone while it goes on and when it succeeds,
\* and decrements by exactly one when it fails; no step of a read lowers a
\* cached revision, and a cached revision is lowered only in the step in
\* which a write fails.
WritesInFlightOn(ck) == {o \in Ops : InFlightWrite(o) /\ op[o].ck = ck}
C27_DecrementOnlyByFailedWrite ==
    [][IF last'.kind \in ReadKinds \/ last'.ck = ""
       THEN \A ck \in DOMAIN cache : cache'[ck] >= cache[ck]
       ELSE IF last'.step = "start"
       THEN IF last'.outcome = "pending"
            THEN /\ \E o \in Ops : Reserves(o) /\ op'[o].ck = last'.ck
                 /\ cache' = setCached(cache, last'.ck,
                                       cachedOrUncached(cache, last'.ck) + 1)
            ELSE cache' = cache
       ELSE IF last'.outcome = "error"
       THEN /\ \E o \in Ops : RollsBack(o) /\ op[o].ck = last'.ck
            /\ cache' = [cache EXCEPT ![last'.ck] = @ - 1]
       ELSE cache' = cache]_vars
\* A write that reserved revision 1 has failed, nothing else is in flight,
\* and the cache is back at 0.
C27_Witness ==
    /\ last.step \in {"upload", "setEntry"} /\ last.outcome = "error"
    /\ last.kind \in WriteKinds
    /\ AllIdle
    /\ last.ck \in DOMAIN cache /\ cache[last.ck] = 0
    /\ observed[last.ck] = 0

\* C28: every cached revision is at least -1 and at most the maximum
\* revision, and at least the number of writes in flight on its pair minus 1.
C28_CacheWithinBounds ==
    \A ck \in DOMAIN cache :
        /\ cache[ck] >= UNCACHED_REVISION_NUMBER
        /\ cache[ck] <= MAX_REVISION
        /\ cache[ck] >= Cardinality(WritesInFlightOn(ck)) - 1
\* Two writes are in flight on a pair whose cached revision is 1 and of
\* which no revision has been observed.
C28_Witness ==
    \E ck \in DOMAIN cache :
        /\ Cardinality(WritesInFlightOn(ck)) = 2
        /\ cache[ck] = 1
        /\ observed[ck] = UNCACHED_REVISION_NUMBER

\* C29, in the case it names: when a write fails right after the step in
\* which a read returned the found entry of revision r that it fetched for
\* the pair, and no write on the pair stays in flight, the cached revision
\* of the pair is not less than r.
C29_CacheNotBelowReadRevision ==
    [][\A o \in Ops :
          (/\ LastEntryWithRevision /\ last.outcome = "ok" /\ last.data # NullVal
           /\ RollsBack(o) /\ op[o].ck = last.ck
           /\ WritesInFlightOn(last.ck)' = {})
            => cache'[last.ck] >= last.resp.revision]_vars

\* C30: when every call of a collaborator eventually returns or fails, every
\* write that reserved a revision eventually completes, and it completes in
\* exactly one of two ways: registry.setEntry succeeded and the cache is
\* left alone, or the cached revision is decremented exactly once and the
\* error is thrown.
C30_WriteCompletesOneWay ==
    /\ \A o \in Ops : InFlightWrite(o) ~> (op[o].pc = "idle")
    /\ [][\A o \in Ops :
            (InFlightWrite(o) /\ Finished(o))
                => \/ /\ op[o].pc = "setEntry" /\ last'.resp.t = "ok"
                      /\ last'.outcome = "ok" /\ cache' = cache
                   \/ /\ last'.resp.t # "ok" \/ op[o].pc = "upload"
                      /\ last'.outcome = "error" /\ last'.err # ""
                      /\ cache' = [cache EXCEPT ![op[o].ck] = @ - 1]]_vars
\* A write has completed with the error of registry.setEntry and the cache
\* of its fresh pair is back at -1.
C30_Witness ==
    /\ last.kind \in WriteKinds /\ last.step = "setEntry" /\ last.outcome = "error"
    /\ last.resp.t = "fail" /\ last.err = last.resp.err
    /\ AllIdle
    /\ last.ck \in DOMAIN cache /\ cache[last.ck] = UNCACHED_REVISION_NUMBER

\* C31: every step of an operation on a pair, ending well or with an error,
\* leaves the cache entries of every other cache key as they are, creating
\* and removing none, and the cache key of the pair of a call is the cache
\* key of no other pair of hex public key and data key, with or without "/"
\* in the data key.
ManyPairs ==
    {<<sk, dk>> : sk \in {"5a", "6b"}, dk \in {"k", "b2/k", "a1/k", "/k", "k/", "/"}}
C31_OtherPairsUntouched ==
    [][/\ \A ck \in DOMAIN cache : ck \in DOMAIN cache'
       /\ \A ck \in DOMAIN cache' :
            ck # last'.ck => (ck \in DOMAIN cache /\ cache'[ck] = cache[ck])
       /\ \A o \in Ops : op'[o] # op[o] => last'.ck \in {op[o].ck, op'[o].ck}
       /\ last'.step = "start"
            => Cardinality({p \in ManyPairs :
                              getCacheKey(publicKeyOf(p[1]), p[2]) = last'.ck}) = 1]_vars
\* A write on the pair with "/" in its data key has failed and left its
\* entry at -1, while the entry of the other pair is at 2 with a write in
\* flight.
C31_Witness ==
    /\ last.kind \in WriteKinds /\ last.outcome = "error"
    /\ last.ck = getCacheKey("a1", "b2/k")
    /\ DOMAIN cache = {getCacheKey("a1", "b2/k"), getCacheKey("b2", "k")}
    /\ cache[getCacheKey("a1", "b2/k")] = UNCACHED_REVISION_NUMBER
    /\ cache[getCacheKey("b2", "k")] = 2
    /\ \E o \in Ops : InFlightWrite(o) /\ op[o].ck = getCacheKey("b2", "k")

\* The write of the pair that the registry holds is a setJSON.
LastWriteIsSetJSON(ck) == ck \in DOMAIN written /\ written[ck].kind = "setJSON"

\* C32: on a portal that hands back for a content address the file that was
\* uploaded and for a pair the entry that was stored, a getJSON of a pair
\* whose last successful write is a setJSON(json), with nothing failing and
\* no other call under way, returns that json as data and the dataLink that
\* the setJSON returned, for every object json, the empty object too; the
\* file uploaded and downloaded is { _data: json, _v: 2 }; and getJSON
\* leaves the cached revision at the revision the setJSON stored.
C32_SetThenGetRoundTrip ==
    [][/\ (last'.kind = "setJSON" /\ last'.step = "upload" /\ last'.resp.t = "ok")
            => \E o \in Ops :
                 /\ op[o].pc = "upload"
                 /\ fileAt(last'.resp.skylink)
                      = Body("object", op[o].json, JSON_RESPONSE_VERSION)
       /\ (/\ last'.kind = "getJSON" /\ last'.step \in {"getEntry", "download"}
           /\ last'.resp.t # "fail" /\ LastWriteIsSetJSON(last'.ck))
            => LET w == written[last'.ck] IN
               /\ last'.ck \in DOMAIN cache' /\ cache'[last'.ck] = w.revision
               /\ cache' = cache
               /\ last'.step = "getEntry" => last'.outcome = "pending"
               /\ last'.step = "download"
                    => /\ last'.outcome = "ok"
                       /\ last'.data = w.resultData
                       /\ last'.dataLink = w.resultDataLink
                       /\ \E json \in Jsons :
                            /\ w.resultData = JsonVal(json)
                            /\ last'.resp.data
                                 = Body("object", json, JSON_RESPONSE_VERSION)]_vars

C32_Witness ==
    /\ last.kind = "getJSON" /\ last.step = "download" /\ last.outcome = "ok"
    /\ last.data = JsonVal(EmptyObject)
    /\ LastWriteIsSetJSON(last.ck)
    /\ written[last.ck].resultData = JsonVal(EmptyObject)
    /\ written[last.ck].resultDataLink = last.dataLink
    /\ last.resp.data = Body("object", EmptyObject, JSON_RESPONSE_VERSION)
    /\ cache[last.ck] = written[last.ck].revision
    /\ written[last.ck].revision = 1

====
